---- MODULE Spec2Model ----
(***************************************************************************)
(* Signal-to-trade pipeline of the trading system:                         *)
(*   internal/signals/processor.go  (signal loop, reconciliation loop)     *)
(*   internal/database/db.go        (signal and trade store)               *)
(*   internal/mt5/client.go         (bridge client)                        *)
(* The store is the only state shared by the two background loops.  An     *)
(* action is one stretch of a loop between two points at which a step of   *)
(* the other loop can make a difference; the outcome of every bridge call  *)
(* and store statement inside it is chosen nondeterministically.  A call   *)
(* that does not give its nominal outcome (health check false, transport   *)
(* error, success=false, ticket 0, refused statement) is a fault; a        *)
(* behaviour holds at most MaxFaults of them.                              *)
(***************************************************************************)
EXTENDS Integers, Sequences, FiniteSets, TLC

\* ---- bounds of the model ------------------------------------------------
MaxSignals == 2
MaxTrades == 3
MaxFaults == 1

\* ---- program constants --------------------------------------------------
MaxOpenPositions == 3
maxRetries == 3

OpenStatuses == {"pending", "filled", "partial"}
TerminalStatuses == {"closed", "cancelled", "rejected"}
NoTicket == 0

\* volumes are counted in thousandths of a lot; 0.1 lots is the default limit
MaxPositionSize == 100

\* payloads that pass normalization, as the webhook path stores them; tp1, tp2: the level
\* is set and positive; volume: the payload's volume (0 = none), whole hundredths of a lot
WebhookInputs ==
  { [symbol |-> "EURUSD", type |-> "buy",   tp1 |-> TRUE,  tp2 |-> TRUE,  volume |-> 10],
    [symbol |-> "GBPUSD", type |-> "sell",  tp1 |-> FALSE, tp2 |-> TRUE,  volume |-> 0],
    [symbol |-> "GBPUSD", type |-> "buy",   tp1 |-> FALSE, tp2 |-> FALSE, volume |-> 200],
    [symbol |-> "EURUSD", type |-> "close", tp1 |-> FALSE, tp2 |-> FALSE, volume |-> 0],
    [symbol |-> "GBPUSD", type |-> "close", tp1 |-> FALSE, tp2 |-> FALSE, volume |-> 0] }

VARIABLES
  signals,      \* signals table: sequence of rows, id = index
  trades,       \* trades table: sequence of rows, id = index
  positions,    \* bridge: tickets of the open positions
  orders,       \* bridge: tickets of the pending orders
  nextTicket,   \* bridge: next ticket it hands out
  faults,       \* number of faults so far
  crashed,      \* the process died of a nil dereference
  sigPC,        \* signalProcessingLoop: position in processUnprocessedSignals
  batch,        \* signals returned by GetUnprocessedSignals (ids)
  bi,           \* index of the signal being handled
  entryId,      \* entryTrade.ID of the signal being handled
  procErr,      \* processSignal returned an error for the current signal
  closeList,    \* tradesToClose of handleCloseSignal (ids)
  ci,           \* index into closeList
  syncPC,       \* positionMonitoringLoop: position in syncPositionsFromMT5
  snapTrades,   \* openTrades as read by the running reconciliation
  snapPos,      \* positions as read by the running reconciliation
  snapOrd,      \* orders as read by the running reconciliation
  si,           \* index into snapTrades
  modifyCalls,  \* history: TP trades of this signal for which ModifyPosition was called
  modifyFailed, \* history: TP trades of this signal whose ModifyPosition failed or was refused
  positionGone, \* history: TP trades of this signal placed when the parent position was gone
  filledHist,   \* history: trades of this signal persisted as filled together with a ticket
  entryFailed,  \* history: entries of this signal whose submission failed
  bridgeDown,   \* history: the health check at the start of this signal's handling failed
  closeCalls,   \* history: trades for which this close handler called ClosePosition
  closeFailed,  \* history: trades whose close attempt met an unreachable bridge
  closeRefused, \* history: trades whose close request was answered with success=false
  writeErr,     \* history: the store refused a statement of the last step
  syncWrote,    \* history: the running reconciliation issued an UpdateTradeStatus
  runClean,     \* history: the running reconciliation was not disturbed
  prevClean,    \* history: the previous reconciliation ran undisturbed to its end
  webhook,      \* webhook intake: the request handed to ProcessWebhook
  arch,         \* webhook intake: the architecture the binary was built for
  webResult,    \* webhook intake: what ProcessWebhook returned for the request
  http,         \* HTTP server: method and signature header of the request
  call,         \* a call with a retry loop: the function and its arguments
  outcomes,     \* a call with a retry loop: what each attempt will meet
  attempt,      \* a call with a retry loop: attempts made so far
  ret           \* a call with a retry loop: what the call returned

storeVars == <<signals, trades>>
bridgeVars == <<positions, orders, nextTicket>>
sigVars == <<sigPC, batch, bi, entryId, procErr, closeList, ci>>
syncVars == <<syncPC, snapTrades, snapPos, snapOrd, si>>
sigHist == <<modifyCalls, modifyFailed, positionGone, filledHist, entryFailed, bridgeDown,
             closeCalls, closeFailed,
                 closeRefused>>
syncHist == <<syncWrote, runClean, prevClean>>
webVars == <<webhook, arch, webResult, http>>
callVars == <<call, outcomes, attempt, ret>>
pureVars == <<webVars, callVars>>
vars == <<storeVars, bridgeVars, sigVars, syncVars, sigHist, syncHist, writeErr, faults,
          crashed, pureVars>>

\* ---- helpers --------------------------------------------------------------
TradeIds == 1..Len(trades)
SignalIds == 1..Len(signals)

RECURSIVE SeqOfSet(_, _)
\* the ids of S in ascending order (ORDER BY created_at ASC: ids grow with time)
SeqOfSet(S, n) ==
  IF n = 0 THEN <<>>
  ELSE IF n \in S THEN Append(SeqOfSet(S, n - 1), n) ELSE SeqOfSet(S, n - 1)

\* a call with outcome b counts as a fault when it did not succeed
F(b) == IF b THEN 0 ELSE 1

\* the choices of C that the remaining fault budget allows; cost[c] = faults of c
Affordable(C, cost) == {c \in C : faults + cost[c] <= MaxFaults}

getOppositeDirection(direction) == IF direction = "buy" THEN "sell" ELSE "buy"

\* ---- store operations -------------------------------------------------------
\* WHERE processed = false ORDER BY created_at ASC
GetUnprocessedSignals_all == SeqOfSet(SignalIds, Len(signals))
GetUnprocessedSignals ==
  SeqOfSet({s \in SignalIds : ~signals[s].processed}, Len(signals))

MarkSignalProcessed(s) == [signals EXCEPT ![s].processed = TRUE]

\* INSERT INTO signals ..: processed defaults to false
CreateSignal_processed(req) == Append(signals, req @@ [processed |-> TRUE])
CreateSignal(req) == Append(signals, req @@ [processed |-> FALSE])

\* WHERE status IN ('pending','filled','partial') ORDER BY created_at ASC
GetOpenTrades == SeqOfSet({t \in TradeIds : trades[t].status \in OpenStatuses}, Len(trades))

UniqueViolation_off(tr, id, tk) == FALSE

\* mt5_ticket BIGINT UNIQUE: an update that gives row id a ticket held by another row fails
UniqueViolation(tr, id, tk) ==
  tk # NoTicket /\ \E j \in 1..Len(tr) : j # id /\ tr[j].ticket = tk

\* UPDATE trades SET status = .., [mt5_ticket = ..] WHERE id = ..; tk = NoTicket: column not set
UpdateTradeStatus(tr, id, st, tk) ==
  IF tk = NoTicket THEN [tr EXCEPT ![id].status = st]
  ELSE [tr EXCEPT ![id].status = st, ![id].ticket = tk]

\* volume DECIMAL(10,2): a value is rounded to whole hundredths, a half away from zero
VolumeColumn(v) == ((v + 5) \div 10) * 10

\* INSERT INTO trades ..: status defaults to 'pending', mt5_ticket to NULL
CreateTrade(tr, req) ==
  Append(tr, [req EXCEPT !.volume = VolumeColumn(req.volume)]
               @@ [status |-> "pending", ticket |-> NoTicket])

\* the payload's volume if it is positive and within the limit, else 0.10 lots
calculatePositionSize(requestedVolume) ==
  IF requestedVolume > 0 /\ requestedVolume <= MaxPositionSize THEN requestedVolume
  ELSE 100

createEntryTrade(s, volume) ==
  [sig |-> s, type |-> "entry", symbol |-> signals[s].symbol, kind |-> "market",
   dir |-> signals[s].type, parent |-> 0, volume |-> volume]

createTPTrade_sameDirection(s, parentTradeID, tpType, volume) ==
  [sig |-> s, type |-> tpType, symbol |-> signals[s].symbol, kind |-> "limit",
   dir |-> signals[s].type, parent |-> parentTradeID, volume |-> volume]

createTPTrade(s, parentTradeID, tpType, volume) ==
  [sig |-> s, type |-> tpType, symbol |-> signals[s].symbol, kind |-> "limit",
   dir |-> getOppositeDirection(signals[s].type), parent |-> parentTradeID,
   volume |-> volume]

getTradeByID(tr, id) == tr[id]

\* no request is followed through ProcessWebhook
NoWebhook == [source |-> "", format |-> ""]
NoHttp == [method |-> "", signature |-> ""]
NoCall == [fn |-> ""]
NoReturn == [done |-> FALSE]
CallIdle == call = NoCall /\ outcomes = <<>> /\ attempt = 0 /\ ret = NoReturn
NoResult == [err |-> "none"]

\* the state of the store, the bridge and the two loops when the process starts
LoopsInit ==
  /\ positions = {} /\ orders = {} /\ nextTicket = 1
  /\ faults = 0 /\ crashed = FALSE
  /\ sigPC = "idle" /\ batch = <<>> /\ bi = 0 /\ entryId = 0 /\ procErr = FALSE
  /\ closeList = <<>> /\ ci = 0
  /\ syncPC = "idle" /\ snapTrades = <<>> /\ snapPos = {} /\ snapOrd = {} /\ si = 0
  /\ modifyCalls = {} /\ modifyFailed = {} /\ positionGone = {} /\ filledHist = {}
  /\ entryFailed = {}
  /\ bridgeDown = FALSE
  /\ closeCalls = {} /\ closeFailed = {} /\ closeRefused = {} /\ writeErr = FALSE
  /\ syncWrote = FALSE /\ runClean = FALSE /\ prevClean = FALSE

PipelineInit == signals = <<>> /\ trades = <<>> /\ LoopsInit

Init ==
  /\ PipelineInit
  /\ webhook = NoWebhook /\ arch = "amd64" /\ webResult = NoResult /\ http = NoHttp
  /\ CallIdle

\* a step of the signal loop or a change at the bridge ends a quiet period
Disturb == /\ runClean' = FALSE /\ prevClean' = FALSE
           /\ UNCHANGED syncWrote

\* ---- webhook path -----------------------------------------------------------
\* ProcessWebhook (lines 694-718): a payload that passed parsing is inserted
ProcessWebhook ==
  /\ ~crashed
  /\ Len(signals) < MaxSignals
  /\ \E in \in WebhookInputs : signals' = CreateSignal(in)
  /\ writeErr' = FALSE
  /\ UNCHANGED pureVars
  /\ UNCHANGED <<trades, bridgeVars, sigVars, syncVars, sigHist, syncHist, faults, crashed>>

\* ---- signal loop: processUnprocessedSignals ----------------------------------
Cur == batch[bi]
Sig == signals[Cur]

\* lines 96-105; a failed or empty read leaves the loop where it was
PollSignals ==
  /\ ~crashed /\ sigPC = "idle"
  /\ Len(GetUnprocessedSignals) > 0
  /\ batch' = GetUnprocessedSignals
  /\ bi' = 1 /\ sigPC' = "process"
  /\ writeErr' = FALSE
  /\ Disturb
  /\ UNCHANGED pureVars
  /\ UNCHANGED <<storeVars, bridgeVars, entryId, procErr, closeList, ci, syncVars, crashed,
                 sigHist, faults>>

\* validateRiskParametersFromSignal / validateRiskParametersFromDatabase: the size limit
\* and the open-position limit. cntOk: GetPositionCount answered; dbOk: the fallback
\* GetOpenTrades answered
validateRiskParametersFromDatabase(volume, dbOk) ==
  volume <= MaxPositionSize /\ dbOk /\ Len(GetOpenTrades) < MaxOpenPositions

validateRiskParametersFromSignal(volume, h, cntOk, dbOk) ==
  /\ volume <= MaxPositionSize
  /\ IF h /\ cntOk THEN Cardinality(positions) < MaxOpenPositions
     ELSE validateRiskParametersFromDatabase(volume, dbOk)

\* outcomes of the calls of StartEntry; a call that is not reached has its nominal outcome.
\* parse: json.Unmarshal of the payload; h: IsConnected; h2, cntOk, dbOk: the risk check;
\* ins: the entry insert
StartChoices ==
  { c \in [parse : BOOLEAN, h : BOOLEAN, h2 : BOOLEAN, cntOk : BOOLEAN, dbOk : BOOLEAN,
           ins : BOOLEAN] :
      /\ (~c.parse => c.h)
      /\ (~c.h => c.h2 /\ c.cntOk /\ c.dbOk /\ c.ins)
      /\ (~c.h2 => c.cntOk)
      /\ (c.h2 /\ c.cntOk => c.dbOk)
      /\ (~c.dbOk => c.ins) }

StartCost == [c \in StartChoices |->
                F(c.parse) + F(c.h) + F(c.h2) + F(c.cntOk) + F(c.dbOk) + F(c.ins)]

\* whether processTradingViewSignal goes on after its health check (lines 155-158)
BridgeAvailable_assumed(h) == TRUE
BridgeAvailable(h) == h

\* processTradingViewSignal, lines 144-183: payload, health check, risk check, entry insert
StartEntry ==
  /\ ~crashed /\ sigPC = "process" /\ Sig.type # "close"
  /\ \E c \in Affordable(StartChoices, StartCost) :
       /\ faults' = faults + StartCost[c]
       /\ bridgeDown' = (c.parse /\ ~c.h)
       /\ IF /\ c.parse /\ BridgeAvailable(c.h)
             /\ validateRiskParametersFromSignal(Sig.volume, c.h2, c.cntOk, c.dbOk)
          THEN IF c.ins
               THEN /\ Len(trades) < MaxTrades
                    /\ trades' = CreateTrade(trades,
                                   createEntryTrade(Cur, calculatePositionSize(Sig.volume)))
                    /\ entryId' = Len(trades) + 1
                    /\ sigPC' = "execEntry" /\ procErr' = FALSE
               ELSE /\ sigPC' = "mark" /\ procErr' = TRUE
                    /\ UNCHANGED <<trades, entryId>>
          ELSE /\ sigPC' = "mark" /\ procErr' = TRUE
               /\ UNCHANGED <<trades, entryId>>
       /\ writeErr' = ~c.ins
  /\ Disturb
  /\ UNCHANGED pureVars
  /\ UNCHANGED <<signals, bridgeVars, batch, bi, closeList, ci, syncVars, crashed,
                 modifyCalls, modifyFailed, positionGone, filledHist, entryFailed, closeCalls,
                 closeFailed,
                 closeRefused>>

\* status written for an entry the bridge accepted (line 346)
EntrySuccessStatus_pending == "pending"
EntrySuccessStatus == "filled"

\* h: IsConnected; resp: outcome of SendTrade (ok0 = success reported with ticket 0);
\* w1: the store accepts the update; w2: the store accepts the fallback `rejected` write
EntryChoices ==
  { c \in [h : BOOLEAN, resp : {"ok", "ok0", "nok", "err"}, w1 : BOOLEAN, w2 : BOOLEAN] :
      /\ (~c.h => c.resp = "ok" /\ c.w1)
      /\ (c.resp = "err" => c.w1)
      /\ (c.h /\ c.resp # "err" /\ c.w1 => c.w2) }

\* the two writes are consecutive statements: refused together they are one store outage
EntryCost == [c \in EntryChoices |->
                F(c.h) + F(c.resp = "ok") + F(c.w1 /\ c.w2)]

\* executeEntryTrade (lines 305-362) and the error path of its caller (lines 186-191)
executeEntryTrade ==
  /\ ~crashed /\ sigPC = "execEntry"
  /\ \E c \in Affordable(EntryChoices, EntryCost) :
       LET opened == c.h /\ c.resp \in {"ok", "ok0"}
           gotResp == c.h /\ c.resp # "err"
           tk == IF c.h /\ c.resp = "ok" THEN nextTicket ELSE NoTicket
           st == IF opened THEN EntrySuccessStatus ELSE "rejected"
           updOk == gotResp /\ c.w1 /\ ~UniqueViolation(trades, entryId, tk)
           tr1 == IF updOk THEN UpdateTradeStatus(trades, entryId, st, tk) ELSE trades
           tr2 == IF ~updOk /\ c.w2 THEN UpdateTradeStatus(tr1, entryId, "rejected", NoTicket)
                  ELSE tr1
       IN /\ faults' = faults + EntryCost[c]
          /\ trades' = tr2
          /\ positions' = IF opened THEN positions \cup {nextTicket} ELSE positions
          /\ nextTicket' = IF opened THEN nextTicket + 1 ELSE nextTicket
          /\ IF updOk THEN sigPC' = "tp1" /\ procErr' = FALSE
                      ELSE sigPC' = "mark" /\ procErr' = TRUE
          /\ filledHist' = IF updOk /\ st = "filled" /\ tk # NoTicket
                           THEN filledHist \cup {entryId} ELSE filledHist
          /\ entryFailed' = IF ~opened THEN entryFailed \cup {entryId} ELSE entryFailed
          /\ writeErr' = (~c.w1 \/ ~c.w2)
  /\ Disturb
  /\ UNCHANGED pureVars
  /\ UNCHANGED <<signals, orders, batch, bi, entryId, closeList, ci, syncVars, crashed,
                 modifyCalls, modifyFailed, positionGone, bridgeDown, closeCalls, closeFailed,
                 closeRefused>>

\* createTPTradeWithRetry (lines 981-1002): fails = inserts that failed before one succeeded
createTPTradeWithRetry(fails) == fails < maxRetries

\* verifyPositionExists (lines 1010-1028): h = IsConnected, posOk = GetPositions answered
verifyPositionExists(positionTicket, h, posOk) ==
  h /\ posOk /\ positionTicket \in positions

\* status written for a TP leg whose parent position is not found (line 388)
GoneParentStatus_rejected == "rejected"
GoneParentStatus == "cancelled"

\* status written for a TP leg after the bridge answered ModifyPosition (lines 419-444)
TPResponseStatus_pending(success) == "pending"
TPResponseStatus(success) == IF success THEN "pending" ELSE "rejected"

\* executeTPTrade (lines 365-450) on trade id of table tr; c.mod = outcome of ModifyPosition;
\* gone: the check of line 386 was reached and the parent's ticket is not a position
executeTPTrade(tr, id, c) ==
  LET parentTrade == getTradeByID(tr, tr[id].parent)
      bad == [tr |-> tr, err |-> TRUE, called |-> FALSE, failed |-> FALSE, gone |-> FALSE]
  IN IF ~c.h \/ ~c.getOk THEN bad
     ELSE IF parentTrade.ticket = NoTicket THEN bad
     ELSE IF ~verifyPositionExists(parentTrade.ticket, c.h2, c.posOk)
       THEN [tr |-> IF c.w1 THEN UpdateTradeStatus(tr, id, GoneParentStatus, NoTicket)
                    ELSE tr,
             err |-> FALSE, called |-> FALSE, failed |-> FALSE,
             gone |-> parentTrade.ticket \notin positions]
     ELSE IF c.mod = "err"
       THEN [tr |-> tr, err |-> TRUE, called |-> TRUE, failed |-> TRUE, gone |-> FALSE]
     ELSE LET st == TPResponseStatus(c.mod = "ok")
              tk == IF c.mod = "ok" THEN parentTrade.ticket ELSE NoTicket
              ok == c.w1 /\ ~UniqueViolation(tr, id, tk)
          IN [tr |-> IF ok THEN UpdateTradeStatus(tr, id, st, tk) ELSE tr,
              err |-> ~ok, called |-> TRUE, failed |-> c.mod # "ok", gone |-> FALSE]

\* outcomes of the calls of PlaceTP; a call that is not reached has its nominal outcome.
\* A run of failing inserts of one leg counts as one fault.
TPChoices ==
  { c \in [fails : {0, 1, maxRetries}, h : BOOLEAN, getOk : BOOLEAN, h2 : BOOLEAN,
           posOk : BOOLEAN, mod : {"ok", "nok", "err"}, w1 : BOOLEAN, w2 : BOOLEAN] :
      /\ (c.fails = maxRetries => c.h /\ c.w2)
      /\ (~c.h => c.getOk)
      /\ (~c.getOk => c.h2 /\ c.w1)
      /\ (~c.h2 => c.posOk)
      /\ (~c.posOk => c.mod = "ok")
      /\ (c.mod = "err" => c.w1) }

TPCost == [c \in TPChoices |->
             F(c.fails = 0) + F(c.h) + F(c.getOk) + F(c.h2) + F(c.posOk) + F(c.mod = "ok")
             + F(c.w1) + F(c.w2)]

\* processTradingViewSignal, lines 199-216 (tp1) and 218-235 (tp2)
PlaceTP(leg) ==
  /\ ~crashed /\ sigPC = leg
  /\ sigPC' = IF leg = "tp1" THEN "tp2" ELSE "mark"
  /\ IF ~Sig[leg] THEN UNCHANGED <<trades, modifyCalls, modifyFailed, positionGone, faults>>
                        /\ writeErr' = FALSE
     ELSE \E c \in Affordable(TPChoices, TPCost) :
            /\ faults' = faults + TPCost[c]
            /\ IF ~createTPTradeWithRetry(c.fails)
               THEN UNCHANGED <<trades, modifyCalls, modifyFailed, positionGone>> /\ writeErr' = TRUE
               ELSE LET id == Len(trades) + 1
                        totalVolume == calculatePositionSize(Sig.volume)
                        r == executeTPTrade(
                               CreateTrade(trades,
                                 createTPTrade(Cur, entryId, leg, totalVolume \div 2)),
                               id, c)
                    IN /\ Len(trades) < MaxTrades
                       /\ trades' = IF r.err /\ c.w2
                                    THEN UpdateTradeStatus(r.tr, id, "rejected", NoTicket)
                                    ELSE r.tr
                       /\ modifyCalls' = IF r.called THEN modifyCalls \cup {id}
                                         ELSE modifyCalls
                       /\ modifyFailed' = IF r.failed THEN modifyFailed \cup {id}
                                          ELSE modifyFailed
                       /\ positionGone' = IF r.gone THEN positionGone \cup {id}
                                          ELSE positionGone
                       /\ writeErr' = (c.fails > 0 \/ ~c.w1 \/ ~c.w2)
  /\ Disturb
  /\ UNCHANGED pureVars
  /\ UNCHANGED <<signals, bridgeVars, batch, bi, entryId, procErr, closeList, ci, syncVars,
                 crashed, filledHist, entryFailed, bridgeDown, closeCalls, closeFailed,
                 closeRefused>>

\* whether the loop calls MarkSignalProcessed after processSignal returned (lines 113-115)
ShouldMark_onSuccess(processErr) == ~processErr
ShouldMark(processErr) == TRUE

\* whether the loop over the signals read goes on after processSignal returned (lines
\* 107-112: the error is logged, nothing leaves the loop)
ContinuesAfter_stopOnError(processErr) == ~processErr
ContinuesAfter(processErr) == TRUE

\* processUnprocessedSignals, lines 109-124: mark the signal, go on to the next one
MarkProcessed ==
  /\ ~crashed /\ sigPC = "mark"
  /\ \E ok \in {b \in BOOLEAN : faults + F(b) <= MaxFaults} :
       /\ faults' = faults + F(ok)
       /\ signals' = IF ShouldMark(procErr) /\ ok THEN MarkSignalProcessed(Cur) ELSE signals
       /\ writeErr' = (ShouldMark(procErr) /\ ~ok)
  /\ procErr' = FALSE /\ entryId' = 0 /\ closeList' = <<>> /\ ci' = 0
  /\ modifyCalls' = {} /\ modifyFailed' = {} /\ positionGone' = {} /\ filledHist' = {}
  /\ entryFailed' = {}
  /\ bridgeDown' = FALSE
  /\ closeCalls' = {} /\ closeFailed' = {} /\ closeRefused' = {}
  /\ IF bi < Len(batch) /\ ContinuesAfter(procErr)
     THEN bi' = bi + 1 /\ sigPC' = "process" /\ batch' = batch
     ELSE bi' = 0 /\ sigPC' = "idle" /\ batch' = <<>>
  /\ Disturb
  /\ UNCHANGED pureVars
  /\ UNCHANGED <<trades, bridgeVars, syncVars, crashed>>

\* ---- signal loop: close signals ---------------------------------------------
\* the trades handleCloseSignal selects from the open trades (line 464)
CloseFilter_anySymbol(t, sym) == trades[t].status = "filled"
CloseFilter(t, sym) == trades[t].symbol = sym /\ trades[t].status = "filled"

\* outcomes of the calls of CloseList: parse = json.Unmarshal, get = GetOpenTrades
CloseListChoices == { c \in [parse : BOOLEAN, get : BOOLEAN] : ~c.parse => c.get }

CloseListCost == [c \in CloseListChoices |-> F(c.parse) + F(c.get)]

\* processTradingViewSignal lines 144-152 and handleCloseSignal lines 453-474: list the
\* trades to close
CloseList ==
  /\ ~crashed /\ sigPC = "process" /\ Sig.type = "close"
  /\ \E c \in Affordable(CloseListChoices, CloseListCost) :
       LET lst == SelectSeq(GetOpenTrades, LAMBDA t : CloseFilter(t, Sig.symbol)) IN
       /\ faults' = faults + CloseListCost[c]
       /\ IF ~c.parse \/ ~c.get
          THEN /\ sigPC' = "mark" /\ procErr' = TRUE
               /\ UNCHANGED <<closeList, ci>>
          ELSE /\ closeList' = lst /\ ci' = IF Len(lst) = 0 THEN 0 ELSE 1
               /\ sigPC' = IF Len(lst) = 0 THEN "mark" ELSE "close"
               /\ procErr' = FALSE
  /\ writeErr' = FALSE
  /\ Disturb
  /\ UNCHANGED pureVars
  /\ UNCHANGED <<storeVars, bridgeVars, batch, bi, entryId, syncVars, crashed, sigHist>>

\* whether handleCloseSignal writes `closed` after closeTradeInMT5 returned (lines 478-484)
MarksClosed_always(closeErr) == TRUE
MarksClosed(closeErr) == ~closeErr

\* h: IsConnected; resp: outcome of ClosePosition; w: the store accepts the write
CloseChoices ==
  { c \in [h : BOOLEAN, resp : {"ok", "nok", "err"}, w : BOOLEAN] :
      /\ (~c.h => c.resp = "ok" /\ c.w)
      /\ (c.resp = "err" => c.w) }

CloseCost == [c \in CloseChoices |-> F(c.h) + F(c.resp = "ok") + F(c.w)]

\* one iteration of the loop of handleCloseSignal (lines 477-485) with closeTradeInMT5
\* (lines 491-504). A filled trade without ticket makes *trade.MT5Ticket panic (line 497).
CloseOne ==
  /\ ~crashed /\ sigPC = "close"
  /\ LET t == closeList[ci]
         tk == trades[t].ticket
     IN \E c \in Affordable(CloseChoices, CloseCost) :
          /\ faults' = faults + CloseCost[c]
          /\ IF c.h /\ tk = NoTicket
             THEN /\ crashed' = TRUE /\ writeErr' = FALSE
                  /\ UNCHANGED <<trades, positions, sigPC, ci, closeCalls, closeFailed,
                                 closeRefused>>
             ELSE LET closeErr == ~c.h \/ c.resp = "err" IN
                  /\ positions' = IF c.h /\ c.resp = "ok" THEN positions \ {tk}
                                  ELSE positions
                  /\ trades' = IF MarksClosed(closeErr) /\ c.w
                               THEN UpdateTradeStatus(trades, t, "closed", NoTicket)
                               ELSE trades
                  /\ writeErr' = (MarksClosed(closeErr) /\ ~c.w)
                  /\ closeCalls' = IF c.h THEN closeCalls \cup {t} ELSE closeCalls
                  /\ closeFailed' = IF closeErr THEN closeFailed \cup {t} ELSE closeFailed
                  /\ closeRefused' = IF c.h /\ c.resp = "nok" THEN closeRefused \cup {t}
                                     ELSE closeRefused
                  /\ IF ci < Len(closeList) THEN ci' = ci + 1 /\ sigPC' = "close"
                                            ELSE ci' = ci /\ sigPC' = "mark"
                  /\ crashed' = crashed
  /\ Disturb
  /\ UNCHANGED pureVars
  /\ UNCHANGED <<signals, orders, nextTicket, batch, bi, entryId, procErr, closeList,
                 syncVars, modifyCalls, modifyFailed, positionGone, filledHist, entryFailed, bridgeDown>>

\* ---- reconciliation loop: syncPositionsFromMT5 -------------------------------
\* lines 508-539: health check, then open trades, positions and orders are read;
\* a failing health check or read ends the run
SyncReadChoices == [h : BOOLEAN, db : BOOLEAN, pos : BOOLEAN, ord : BOOLEAN]
SyncReadCost == [c \in SyncReadChoices |-> F(c.h) + F(c.db) + F(c.pos) + F(c.ord)]

\* whether the run reaches its update loop: the returns of lines 509, 515, 521 and 526
SyncProceeds_withoutOrders(c) == c.h /\ c.db /\ c.pos
SyncProceeds(c) == c.h /\ c.db /\ c.pos /\ c.ord

SyncRead ==
  /\ ~crashed /\ syncPC = "idle"
  /\ \E c \in Affordable(SyncReadChoices, SyncReadCost) :
       LET open == GetOpenTrades
           readOk == SyncProceeds(c)
       IN
       /\ faults' = faults + SyncReadCost[c]
       /\ IF ~readOk \/ Len(open) = 0
          THEN /\ runClean' = FALSE /\ prevClean' = (readOk /\ prevClean)
               /\ UNCHANGED syncVars
          ELSE /\ snapTrades' = [i \in 1..Len(open) |->
                                  [id |-> open[i], status |-> trades[open[i]].status,
                                   ticket |-> trades[open[i]].ticket]]
               /\ snapPos' = positions /\ snapOrd' = IF c.ord THEN orders ELSE {}
               /\ syncPC' = "apply" /\ si' = 1
               /\ runClean' = TRUE /\ prevClean' = prevClean
  /\ syncWrote' = FALSE /\ writeErr' = FALSE
  /\ UNCHANGED pureVars
  /\ UNCHANGED <<storeVars, bridgeVars, sigVars, sigHist, crashed>>

\* status the reconciliation writes for a trade with a ticket (lines 547-590); "" = no write
SyncTarget_closeAll(status, inPos, inOrd) ==
  IF inPos THEN "filled" ELSE IF inOrd THEN "pending" ELSE "closed"
SyncTarget_refill(status, inPos, inOrd) ==
  IF inPos THEN "filled" ELSE IF inOrd THEN "pending"
  ELSE IF status = "filled" THEN "closed"
  ELSE IF status = "pending" THEN "filled" ELSE ""
SyncTarget_reopen(status, inPos, inOrd) ==
  IF inPos THEN "filled" ELSE IF inOrd THEN "pending"
  ELSE IF status = "filled" THEN "pending"
  ELSE IF status = "pending" THEN "cancelled" ELSE ""
SyncTarget(status, inPos, inOrd) ==
  IF inPos THEN "filled" ELSE IF inOrd THEN "pending"
  ELSE IF status = "filled" THEN "closed"
  ELSE IF status = "pending" THEN "cancelled" ELSE ""

\* one iteration of the loop at lines 542-591 on the trade read at SyncRead
SyncStep ==
  /\ ~crashed /\ syncPC = "apply"
  /\ LET e == snapTrades[si]
         target == IF e.ticket = NoTicket THEN ""
                   ELSE SyncTarget(e.status, e.ticket \in snapPos, e.ticket \in snapOrd)
     IN \E w \in {b \in BOOLEAN : faults + F(b) <= MaxFaults} :
          /\ (target = "" => w)
          /\ faults' = faults + F(w)
          /\ trades' = IF target # "" /\ w
                       THEN UpdateTradeStatus(trades, e.id, target, NoTicket) ELSE trades
          /\ syncWrote' = (syncWrote \/ target # "")
          /\ writeErr' = ~w
          /\ runClean' = (runClean /\ w)
          /\ IF si < Len(snapTrades)
             THEN /\ si' = si + 1 /\ syncPC' = "apply" /\ prevClean' = prevClean
                  /\ UNCHANGED <<snapTrades, snapPos, snapOrd>>
             ELSE /\ si' = 0 /\ syncPC' = "idle" /\ prevClean' = runClean'
                  /\ snapTrades' = <<>> /\ snapPos' = {} /\ snapOrd' = {}
  /\ UNCHANGED pureVars
  /\ UNCHANGED <<signals, bridgeVars, sigVars, sigHist, crashed>>

\* columns of a trade the reconciliation loop may set (lines 547-590 with
\* UpdateTradeStatus of db.go 164-254) and columns the execution engine may set
\* (executeEntryTrade 337-362, executeTPTrade 411-449, updateTradeStatus 294-302)
ReconciliationColumns ==
  {"status", "current_price", "profit_loss", "commission", "swap", "entry_price",
   "updated_at", "closed_at"}
ExecutionColumns ==
  {"status", "mt5_ticket", "mt5_response", "entry_price", "commission", "updated_at",
   "closed_at"}

\* ---- the bridge's own changes -------------------------------------------------
\* a position is closed at the broker (stop-loss, take-profit, manual close)
ExternalClose ==
  /\ ~crashed
  /\ \E tk \in positions : positions' = positions \ {tk}
  /\ writeErr' = FALSE
  /\ Disturb
  /\ UNCHANGED pureVars
  /\ UNCHANGED <<storeVars, orders, nextTicket, sigVars, syncVars, sigHist, faults, crashed>>

\* the list of pending orders the bridge reports gains or loses the ticket of a trade
\* that is open locally and is not among the positions
OrderChange ==
  /\ ~crashed
  /\ \E t \in TradeIds :
       /\ trades[t].status \in OpenStatuses
       /\ trades[t].ticket # NoTicket /\ trades[t].ticket \notin positions
       /\ orders' = IF trades[t].ticket \in orders THEN orders \ {trades[t].ticket}
                    ELSE orders \cup {trades[t].ticket}
  /\ writeErr' = FALSE
  /\ Disturb
  /\ UNCHANGED pureVars
  /\ UNCHANGED <<storeVars, positions, nextTicket, sigVars, syncVars, sigHist, faults,
                 crashed>>

Next ==
  \/ ProcessWebhook
  \/ PollSignals
  \/ StartEntry
  \/ executeEntryTrade
  \/ PlaceTP("tp1")
  \/ PlaceTP("tp2")
  \/ MarkProcessed
  \/ CloseList
  \/ CloseOne
  \/ SyncRead
  \/ SyncStep
  \/ ExternalClose
  \/ OrderChange

Spec == Init /\ [][Next]_vars

TypeOK ==
  /\ sigPC \in {"idle", "process", "execEntry", "tp1", "tp2", "close", "mark"}
  /\ syncPC \in {"idle", "apply"}
  /\ Len(signals) <= MaxSignals /\ Len(trades) <= MaxTrades
  /\ faults \in 0..MaxFaults
  /\ \A t \in TradeIds : trades[t].status \in OpenStatuses \cup TerminalStatuses

\* signalProcessingLoop (lines 61-75): the ticker keeps firing, so a step of the signal
\* loop that can be taken is taken; within a behaviour the store and the bridge fail at
\* most MaxFaults times, after which every call succeeds
SignalLoopFairness ==
  /\ WF_vars(PollSignals) /\ WF_vars(StartEntry) /\ WF_vars(executeEntryTrade)
  /\ WF_vars(PlaceTP("tp1")) /\ WF_vars(PlaceTP("tp2")) /\ WF_vars(MarkProcessed)
  /\ WF_vars(CloseList) /\ WF_vars(CloseOne)

SpecLive == Init /\ [][Next]_vars /\ SignalLoopFairness

\* ---- webhook intake: ProcessWebhook on arbitrary requests ---------------------
\* A price is counted in half ticks, a tick being 1e-8, the precision prices are rounded
\* to. The magnitudes of the code are scaled down and keep their order: a tick, then the
\* largest int (2^63 - 1 in the code), then the price ceiling (1e12 = 1e20 ticks).
IntMax == 4
PriceCeiling == 2 * IntMax + 6

\* a price field of a payload: left out (JSON) or empty (pipe), a number, other text
Absent == [k |-> "absent", v |-> 0]
Num(p) == [k |-> "num", v |-> p]
NotANumber == [k |-> "text", v |-> 0]
\* a nil *float64 of a CreateSignalRequest
Nil == [k |-> "nil", v |-> 0]

\* an integer of a timestamp: sign and magnitude hi * 10^6 + lo
Big(hi, lo) == [neg |-> FALSE, hi |-> hi, lo |-> lo]
Minus(hi, lo) == [neg |-> TRUE, hi |-> hi, lo |-> lo]
\* a > b for b >= 0
BigGt(a, b) == ~a.neg /\ (a.hi > b.hi \/ (a.hi = b.hi /\ a.lo > b.lo))
\* a / 1000 for a >= 0
BigDiv1000(a) ==
  [neg |-> FALSE, hi |-> a.hi \div 1000, lo |-> (a.hi % 1000) * 1000 + a.lo \div 1000]

\* the timestamp of a payload: left out or empty, JSON null, a string, an integer,
\* anything else (a fraction, a boolean, an integer beyond int64)
TsAbsent == [kind |-> "absent", text |-> "", num |-> Big(0, 0)]
TsNull == [kind |-> "null", text |-> "null", num |-> Big(0, 0)]
TsString(t) == [kind |-> "string", text |-> t, num |-> Big(0, 0)]
TsInt(n) == [kind |-> "int", text |-> "", num |-> n]
TsOther == [kind |-> "other", text |-> "1704628800.5", num |-> Big(0, 0)]

\* the timestamp string parseTimestamp returns: the receipt time, a given text, or the
\* RFC 3339 form of a Unix time
Now == [kind |-> "now", text |-> "", unix |-> Big(0, 0)]
AsText(t) == [kind |-> "text", text |-> t, unix |-> Big(0, 0)]
AtUnix(n) == [kind |-> "unix", text |-> "", unix |-> n]

\* texts that are not the inside of a JSON string as they stand (they hold a quote)
NeedsEscape == {"\"2024-01-07T12:00:00Z\""}

TimestampInputs ==
  { TsAbsent, TsNull, TsOther,
    TsString("2024-01-07T12:00:00Z"), TsString("1704628800"),
    TsString("\"2024-01-07T12:00:00Z\""),
    TsInt(Minus(0, 5)), TsInt(Big(0, 0)), TsInt(Big(1704, 628800)),
    TsInt(Big(4102, 444800)), TsInt(Big(4102, 444801)),
    TsInt(Big(1000000, 0)), TsInt(Big(1000000, 1)), TsInt(Big(1704628, 800000)),
    TsInt(Big(4102444, 800999)), TsInt(Big(4102444, 801000)),
    TsInt(Big(9999999, 999999)) }

TpInputs ==
  { Absent, Num(0), Num(3), Num(4), Num(6), Num(2 * IntMax + 2), Num(2 * IntMax + 4),
    Num(PriceCeiling + 2) }

\* requests with every combination of prices, without timestamp
PriceCases ==
  [source : {"tradingview", "telegram"}, format : {"json", "pipe"},
   ticker : {"", "EURUSD"}, action : {"", "buy", "sell", "close", "hold"},
   entry : {Absent, Num(6), Num(PriceCeiling + 2), NotANumber},
   stop_loss : {Absent, Num(3)}, tp1 : TpInputs, tp2 : TpInputs,
   volume : {Absent, Num(10)}, timestamp : {TsAbsent}]

\* requests with every timestamp
TimestampCases ==
  [source : {"tradingview"}, format : {"json", "pipe"},
   ticker : {"EURUSD"}, action : {"buy", "sell", "close", "hold"},
   entry : {Num(6)}, stop_loss : {Num(3)}, tp1 : {Absent, Num(3), Num(6)},
   tp2 : {Absent, Num(3), Num(6)}, volume : {Num(10)}, timestamp : TimestampInputs]

\* a body that is neither a JSON object nor eight parts separated by |
OtherBodies ==
  [source : {"tradingview", "telegram"}, format : {"other"},
   ticker : {""}, action : {""}, entry : {Absent}, stop_loss : {Absent}, tp1 : {Absent},
   tp2 : {Absent}, volume : {Absent}, timestamp : {TsAbsent}]

WebhookRequests == PriceCases \cup TimestampCases \cup OtherBodies

\* int(x) for a float64 x of t ticks: outside the int range the result is left to the
\* implementation (amd64: the smallest int; arm64: the nearest int)
Archs == {"amd64", "arm64"}
IntOfFloat(t, a) ==
  IF t <= IntMax THEN t ELSE IF a = "amd64" THEN -(IntMax + 1) ELSE IntMax

\* float64(int(price*100000000+0.5)) / 100000000 (lines 778, 921), in half ticks
RoundTo8(p, a) == 2 * IntOfFloat((p + 1) \div 2, a)

\* validatePrice (lines 768-780)
validatePrice(price, a) ==
  IF price.k # "num" \/ price.v <= 0 THEN [val |-> Nil, err |-> ""]
  ELSE IF price.v > PriceCeiling THEN [val |-> Nil, err |-> "value too large"]
  ELSE [val |-> Num(RoundTo8(price.v, a)), err |-> ""]

\* parseFloat of parseSimpleFormat (lines 909-923)
parseFloat(s, a) ==
  IF s.k = "absent" \/ (s.k = "num" /\ s.v = 0) THEN [val |-> Nil, err |-> ""]
  ELSE IF s.k # "num" THEN [val |-> Nil, err |-> "invalid number"]
  ELSE IF s.v <= 0 THEN [val |-> Nil, err |-> ""]
  ELSE [val |-> Num(RoundTo8(s.v, a)), err |-> ""]

\* the TP ordering rule (lines 813-820, 946-953)
TPOrderError(action, tp1, tp2) ==
  /\ tp1 # Nil /\ tp2 # Nil
  /\ \/ action = "buy" /\ tp2.v <= tp1.v
     \/ action = "sell" /\ tp2.v >= tp1.v

\* parseTimestamp (lines 839-871)
parseTimestamp(timestampRaw) ==
  IF timestampRaw.kind = "absent" THEN Now
  ELSE IF timestampRaw.kind = "null" THEN AsText("")
  ELSE IF timestampRaw.kind = "string" THEN AsText(timestampRaw.text)
  ELSE IF timestampRaw.kind = "int"
    THEN LET timestampNum == IF BigGt(timestampRaw.num, Big(1000000, 0))
                             THEN BigDiv1000(timestampRaw.num) ELSE timestampRaw.num
         IN IF timestampNum.neg \/ BigGt(timestampNum, Big(4102, 444800)) THEN Now
            ELSE AtUnix(timestampNum)
  ELSE Now

\* what a parser returns besides its error
NoRequest ==
  [symbol |-> "", type |-> "", price |-> Nil, stop_loss |-> Nil, tp1 |-> Nil, tp2 |-> Nil,
   volume |-> Absent, timestampStr |-> Now, payloadIsJSON |-> FALSE]

Rejected(msg) == [err |-> msg, req |-> NoRequest]

\* parseSimpleFormat (lines 882-978); the payload it builds with Sprintf is JSON when
\* every number part is a number and the quoted parts need no escaping
parseSimpleFormat(w, a) ==
  IF w.format # "pipe" THEN Rejected("simple format requires 8 parts")
  ELSE IF w.ticker = "" THEN Rejected("ticker is required")
  ELSE IF w.action = "" THEN Rejected("action is required")
  ELSE IF w.action \notin {"buy", "sell", "close"} THEN Rejected("invalid action")
  ELSE
    LET entry == parseFloat(w.entry, a)
        stopLoss == parseFloat(w.stop_loss, a)
        tp1 == parseFloat(w.tp1, a)
        tp2 == parseFloat(w.tp2, a)
    IN IF entry.err # "" THEN Rejected(entry.err)
       ELSE IF stopLoss.err # "" THEN Rejected(stopLoss.err)
       ELSE IF tp1.err # "" THEN Rejected(tp1.err)
       ELSE IF tp2.err # "" THEN Rejected(tp2.err)
       ELSE IF TPOrderError(w.action, tp1.val, tp2.val) THEN Rejected("TP ordering")
       ELSE [err |-> "",
             req |-> [symbol |-> w.ticker, type |-> w.action, price |-> entry.val,
                      stop_loss |-> stopLoss.val, tp1 |-> tp1.val, tp2 |-> tp2.val,
                      volume |-> w.volume, timestampStr |-> AsText(w.timestamp.text),
                      payloadIsJSON |->
                        /\ \A f \in {w.entry, w.stop_loss, w.tp1, w.tp2, w.volume} :
                             f.k = "num"
                        /\ w.timestamp.text \notin NeedsEscape]]

\* parseTradingViewWebhook (lines 721-836); json.Unmarshal fails on a body that is not a
\* JSON object and on a price that is not a number. The payloads have no price and no
\* take_profit member.
parseTradingViewWebhook(w, a) ==
  IF w.format # "json" \/ NotANumber \in {w.entry, w.stop_loss, w.tp1, w.tp2, w.volume}
    THEN parseSimpleFormat(w, a)
  ELSE IF w.ticker = "" THEN Rejected("ticker is required")
  ELSE IF w.action = "" THEN Rejected("action is required")
  ELSE IF w.action \notin {"buy", "sell", "close"} THEN Rejected("invalid action")
  ELSE
    LET timestampStr == parseTimestamp(w.timestamp)
        price == validatePrice(w.entry, a)
        stopLoss == validatePrice(w.stop_loss, a)
        tp1 == validatePrice(w.tp1, a)
        tp2 == validatePrice(w.tp2, a)
    IN IF price.err # "" THEN Rejected(price.err)
       ELSE IF stopLoss.err # "" THEN Rejected(stopLoss.err)
       ELSE IF tp1.err # "" THEN Rejected(tp1.err)
       ELSE IF tp2.err # "" THEN Rejected(tp2.err)
       ELSE IF TPOrderError(w.action, tp1.val, tp2.val) THEN Rejected("TP ordering")
       ELSE [err |-> "",
             req |-> [symbol |-> w.ticker, type |-> w.action, price |-> price.val,
                      stop_loss |-> stopLoss.val, tp1 |-> tp1.val, tp2 |-> tp2.val,
                      volume |-> w.volume, timestampStr |-> timestampStr,
                      payloadIsJSON |-> TRUE]]

\* the row of a request as the pipeline reads it: whether a TP level is set and positive,
\* and the volume of the payload
SignalRow(req) ==
  [symbol |-> req.symbol, type |-> req.type,
   tp1 |-> (req.tp1 # Nil /\ req.tp1.v > 0), tp2 |-> (req.tp2 # Nil /\ req.tp2.v > 0),
   volume |-> IF req.volume.k = "num" THEN req.volume.v ELSE 0]

\* whether ProcessWebhook goes on to CreateSignal (lines 706-711)
StoresSignal_always(parseErr) == TRUE
StoresSignal(parseErr) == parseErr = ""

InitWebhook ==
  /\ PipelineInit
  /\ webhook \in WebhookRequests /\ arch \in Archs /\ webResult = NoResult /\ http = NoHttp
  /\ CallIdle

\* ProcessWebhook (lines 694-718) on the request; payload JSONB NOT NULL: the insert of
\* a payload that is not JSON fails
ProcessWebhookCall ==
  IF webhook.source # "tradingview"
  THEN /\ webResult' = [err |-> "unsupported webhook source", cause |-> "",
                        req |-> NoRequest]
       /\ UNCHANGED signals
  ELSE LET r == parseTradingViewWebhook(webhook, arch) IN
       IF ~StoresSignal(r.err)
       THEN /\ webResult' = [err |-> "failed to parse webhook", cause |-> r.err,
                             req |-> r.req]
            /\ UNCHANGED signals
       ELSE IF ~r.req.payloadIsJSON
       THEN /\ webResult' = [err |-> "failed to create signal", cause |-> r.err,
                             req |-> r.req]
            /\ UNCHANGED signals
       ELSE /\ webResult' = [err |-> "", cause |-> r.err, req |-> r.req]
            /\ signals' = CreateSignal(SignalRow(r.req))

ReceiveWebhook ==
  /\ webResult = NoResult
  /\ ProcessWebhookCall
  /\ UNCHANGED <<trades, bridgeVars, sigVars, syncVars, sigHist, syncHist, writeErr, faults,
                 crashed, webhook, arch, http, callVars>>

NextWebhook == ReceiveWebhook

SpecWebhook == InitWebhook /\ [][NextWebhook]_vars

\* ---- HTTP server: POST /webhook/tradingview --------------------------------------
\* the signature header of a request (X-Signature, else X-Hub-Signature-256): none, a
\* value that is not the HMAC-SHA256 of the body under WEBHOOK_SECRET, or that HMAC
Signatures == {"none", "wrong", "hmac"}
HttpRequests == [method : {"POST", "GET"}, signature : Signatures]

InitHttp ==
  /\ PipelineInit
  /\ webhook \in {w \in WebhookRequests : w.source = "tradingview"}
  /\ arch \in Archs /\ webResult = NoResult /\ http \in HttpRequests
  /\ CallIdle

\* handleTradingViewWebhook: the method test, then ProcessWebhook on the body with
\* source "tradingview"; the call of verifyWebhookSignature is commented out (lines
\* 282-289), the signature header is never read
handleTradingViewWebhook ==
  /\ webResult = NoResult
  /\ IF http.method # "POST"
     THEN /\ webResult' = [err |-> "Method not allowed", cause |-> "", req |-> NoRequest]
          /\ UNCHANGED signals
     ELSE ProcessWebhookCall
  /\ UNCHANGED <<trades, bridgeVars, sigVars, syncVars, sigHist, syncHist, writeErr, faults,
                 crashed, webhook, arch, http, callVars>>

\* the status code of the response (lines 268-270, 291-307): 405 for another method,
\* 500 for every error ProcessWebhook returns, 200 with the signal id otherwise
HttpStatus(result) ==
  IF result.err = "Method not allowed" THEN 405
  ELSE IF result.err # "" THEN 500
  ELSE 200

NextHttp == handleTradingViewWebhook

SpecHttp == InitHttp /\ [][NextHttp]_vars

\* ---- calls with a retry loop ------------------------------------------------------
\* MT5_RETRY_ATTEMPTS
RetryAttempts == 3

\* what one attempt meets: an answer with success=true, an answer with success=false,
\* or an error (for an insert: the row is stored, or the store reports an error)
\* lost: the bridge handled the request and its answer did not arrive (the errors of
\* lines 145-153: timeout of the client, body not read), which the caller sees as an error
AttemptOutcomes == {"ok", "nok", "lost", "err"}
AttemptFailed(o) == o \in {"lost", "err"}

\* whether the bridge executed the order of one POST /trade: the request carries no
\* identifier of the trade (lines 320-333 of processor.go), every request is a new order
BridgeExecutes(fn, o) == fn = "SendTrade" /\ o \in {"ok", "lost"}
InsertOutcomes == {"ok", "err"}

\* the methods of the bridge client; ClosePosition (lines 262-269) hands its request to
\* SendTrade, the loop of lines 116-126; the queries and the health check make one
\* request; ModifyPosition is not among the sources and makes one request
ClientCalls ==
  {"SendTrade", "ClosePosition", "GetPositions", "GetOrders", "IsConnected",
   "ModifyPosition"}
UsesSendTrade(fn) == fn \in {"SendTrade", "ClosePosition"}
MaxAttempts(fn) == IF UsesSendTrade(fn) THEN RetryAttempts + 1 ELSE 1

\* the state at a call: a buy/sell signal and its entry trade are stored; SendTrade is
\* called for the entry while it is pending (line 332), the others once it is settled
InitCalls ==
  /\ LoopsInit
  /\ webhook = NoWebhook /\ arch = "amd64" /\ webResult = NoResult /\ http = NoHttp
  /\ \E in \in {w \in WebhookInputs : w.type \in {"buy", "sell"}} :
       signals = <<in @@ [processed |-> FALSE]>>
  /\ \E st \in {"pending", "filled", "rejected"}, tk \in {NoTicket, 1} :
       /\ st \in {"pending", "rejected"} => tk = NoTicket
       /\ trades = <<[sig |-> 1, type |-> "entry", symbol |-> signals[1].symbol,
                      kind |-> "market", dir |-> signals[1].type, parent |-> 0,
                      volume |-> calculatePositionSize(signals[1].volume),
                      status |-> st, ticket |-> tk]>>
  /\ \/ /\ call \in [fn : {"createTPTradeWithRetry"}, tpType : {"tp1", "tp2"}]
        /\ outcomes \in [1..maxRetries -> InsertOutcomes]
     \/ /\ call \in [fn : ClientCalls]
        /\ outcomes \in [1..(RetryAttempts + 1) -> AttemptOutcomes]
  /\ (trades[1].status = "pending") = (call.fn = "SendTrade")
  /\ attempt = 0 /\ ret = NoReturn

\* lines 992-994: the pass whose insert returned no error returns the trade
ReturnsTrade_keepsTrying(inserted) == FALSE
ReturnsTrade(inserted) == inserted

\* one pass of the loop of createTPTradeWithRetry (lines 984-999); after the last pass
\* line 1001 returns the error
TPInsertAttempt ==
  /\ call.fn = "createTPTradeWithRetry" /\ ret = NoReturn
  /\ attempt < maxRetries
  /\ attempt' = attempt + 1
  /\ LET inserted == outcomes[attempt + 1] = "ok"
     IN /\ trades' = IF inserted
                      THEN CreateTrade(trades,
                             createTPTrade(1, 1, call.tpType, trades[1].volume \div 2))
                      ELSE trades
        /\ ret' = IF ReturnsTrade(inserted)
                  THEN [done |-> TRUE, err |-> FALSE, id |-> Len(trades')]
                  ELSE IF attempt + 1 < maxRetries THEN NoReturn
                  ELSE [done |-> TRUE, err |-> TRUE, id |-> 0]
  /\ UNCHANGED <<signals, bridgeVars, sigVars, syncVars, sigHist, syncHist, writeErr, faults,
                 crashed, webVars, call, outcomes>>

\* one request of a client method: a pass of the loop of SendTrade (lines 116-126, an
\* answer is returned whatever its success field, line 128 returns the error after the
\* last pass), or the single request of the other methods
ClientAttempt ==
  /\ call.fn \in ClientCalls /\ ret = NoReturn
  /\ attempt < MaxAttempts(call.fn)
  /\ attempt' = attempt + 1
  /\ ret' = IF ~AttemptFailed(outcomes[attempt + 1])
            THEN [done |-> TRUE, err |-> FALSE, success |-> outcomes[attempt + 1] = "ok"]
            ELSE IF attempt + 1 < MaxAttempts(call.fn) THEN NoReturn
            ELSE [done |-> TRUE, err |-> TRUE, success |-> FALSE]
  /\ IF BridgeExecutes(call.fn, outcomes[attempt + 1])
     THEN positions' = positions \cup {nextTicket} /\ nextTicket' = nextTicket + 1
     ELSE UNCHANGED <<positions, nextTicket>>
  /\ UNCHANGED <<storeVars, orders, sigVars, syncVars, sigHist, syncHist, writeErr,
                 faults, crashed, webVars, call, outcomes>>

NextCalls == TPInsertAttempt \/ ClientAttempt

\* a running call takes its next step: the waits between attempts are finite sleeps
SpecCalls == InitCalls /\ [][NextCalls]_vars /\ WF_vars(NextCalls)

\* ---- properties ---------------------------------------------------------------

\* C1: a ModifyPosition call is made for a TP leg only when the entry trade the leg
\* hangs on was persisted, earlier in the handling of the same signal, with status
\* filled and a ticket
C1_EntryFilledBeforeTP ==
  \A t \in modifyCalls :
    /\ trades[t].type \in {"tp1", "tp2"}
    /\ trades[t].parent \in filledHist
    /\ trades[trades[t].parent].ticket # NoTicket

\* a TP leg of the signal being handled has had its ModifyPosition call
C1_Witness == \E t \in modifyCalls : trades[t].parent = entryId

\* C2 as stated: no step changes the status of a trade that is closed, cancelled or
\* rejected
C2_TerminalStable ==
  [][\A t \in TradeIds :
       trades[t].status \in TerminalStatuses => trades'[t].status = trades[t].status]_vars

\* C3: the processed flag never goes back to false, and the signal the loop is handling
\* (the one passed to processSignal) is not processed
C3_NoReprocess ==
  [][/\ \A s \in SignalIds : signals[s].processed => signals'[s].processed
     /\ (sigPC' \in {"process", "execEntry", "tp1", "tp2", "close"}
           => ~signals'[batch'[bi']].processed)]_vars

\* a polling cycle starts on a signal while an earlier signal is already processed
C3_Witness == sigPC = "process" /\ bi = 1 /\ \E s \in SignalIds : signals[s].processed

\* C4: the loop leaves a signal of the batch only through MarkSignalProcessed: after the
\* step the signal is processed unless the store refused that statement, whether or not
\* processSignal returned an error
C4_AlwaysMarked ==
  [][(sigPC # "idle" /\ (bi' # bi \/ sigPC' = "idle"))
       => (signals'[batch[bi]].processed \/ writeErr')]_vars

\* a buy/sell signal is processed although its handling failed before any trade was
\* created for it
C4_Witness ==
  \E s \in SignalIds :
    /\ signals[s].processed /\ signals[s].type # "close"
    /\ \A t \in TradeIds : trades[t].sig # s

\* C5 as stated: a signal has at most one trade of each type
C5_OneTradePerLeg ==
  \A t1, t2 \in TradeIds :
    (trades[t1].sig = trades[t2].sig /\ trades[t1].type = trades[t2].type) => t1 = t2

\* C6 as stated (its second half): no tp1/tp2 row hangs on an entry whose submission
\* failed
C6_NoTPAfterFailedEntry ==
  \A e \in entryFailed : \A t \in TradeIds : trades[t].parent # e

\* C7 as stated: a reconciliation run that follows an undisturbed run, with nothing
\* happening in between, issues no write
C7_SecondRunNoWrite ==
  [][(prevClean /\ syncPC = "apply") => ~syncWrote']_vars

\* C7 amended: a reconciliation run that follows an undisturbed run whose writes the
\* store accepted, with nothing happening in between, changes the status of no trade
C7_SecondRunKeepsStatus ==
  [][(prevClean /\ syncPC = "apply" /\ si' # si)
       => \A t \in TradeIds : trades'[t].status = trades[t].status]_vars

\* the second of two undisturbed runs has issued a write and is still running
C7_Witness == prevClean /\ runClean /\ syncPC = "apply" /\ syncWrote

\* C8: a reconciliation step on a trade read as pending/filled with a ticket leaves the
\* trade filled if the ticket was among the positions read, else pending if it was among
\* the orders read, else closed if it was read as filled and cancelled if it was read as
\* pending, unless the store refused the write
C8_SyncMapping ==
  [][(syncPC = "apply" /\ si' # si) =>
       LET e == snapTrades[si]
           want == IF e.ticket \in snapPos THEN "filled"
                   ELSE IF e.ticket \in snapOrd THEN "pending"
                   ELSE IF e.status = "filled" THEN "closed" ELSE "cancelled"
       IN (e.status \in {"pending", "filled"} /\ e.ticket # NoTicket)
            => (trades'[e.id].status = want \/ writeErr')]_vars

\* the reconciliation has cancelled a pending trade whose ticket the bridge no longer
\* reports (only the reconciliation cancels a trade that has a ticket)
C8_Witness ==
  \E t \in TradeIds : trades[t].status = "cancelled" /\ trades[t].ticket # NoTicket

C11_AcceptedEntryFilled ==
  [][(sigPC = "execEntry" /\ sigPC' # "execEntry" /\ entryId \notin entryFailed')
       => (trades'[entryId].status = "filled" /\ trades'[entryId].ticket # NoTicket)]_vars

\* C12: a TP leg placed when the parent's position is no longer among the bridge's
\* positions is cancelled in that step unless the store refused a statement; it has no
\* ModifyPosition call and is not marked rejected afterwards
C12_GoneParentCancelsLeg ==
  /\ [](\A t \in positionGone : trades[t].status # "rejected" /\ t \notin modifyCalls)
  /\ [][\A t \in positionGone' \ positionGone :
          trades'[t].status = "cancelled" \/ writeErr']_vars

\* a TP leg was cancelled because the parent position had been closed at the broker
C12_Witness ==
  \E t \in positionGone :
    /\ trades[t].status = "cancelled"
    /\ trades[trades[t].parent].ticket \notin positions

\* C13: no two trades with a non-terminal status (pending, filled, partial) carry the
\* same ticket, an entry and the TP legs placed against its position included
C13_TicketUnique ==
  \A t1, t2 \in TradeIds :
    (/\ t1 # t2
     /\ trades[t1].status \in OpenStatuses /\ trades[t2].status \in OpenStatuses
     /\ trades[t1].ticket # NoTicket)
      => trades[t1].ticket # trades[t2].ticket

\* with no fault at all, ModifyPosition succeeded for a TP leg whose entry is open and
\* holds the ticket: the leg's write of that ticket was refused and the leg is rejected
C13_Witness ==
  /\ faults = 0
  /\ \E t \in modifyCalls :
       /\ trades[t].status = "rejected"
       /\ trades[trades[t].parent].status \in OpenStatuses
       /\ trades[trades[t].parent].ticket # NoTicket

\* C14: every tp1/tp2 trade has a parent id that is the id of an entry trade of the same
\* signal, has the direction opposite to that entry's, and is a limit order
C14_TPLegShape ==
  \A t \in TradeIds :
    trades[t].type \in {"tp1", "tp2"} =>
      /\ trades[t].parent \in TradeIds
      /\ trades[trades[t].parent].type = "entry"
      /\ trades[trades[t].parent].sig = trades[t].sig
      /\ {trades[t].dir, trades[trades[t].parent].dir} = {"buy", "sell"}
      /\ trades[t].kind = "limit"

\* a tp2 leg of a sell entry exists next to a buy entry
C14_Witness ==
  \E t, u \in TradeIds :
    /\ trades[t].type = "tp2" /\ trades[trades[t].parent].dir = "sell"
    /\ trades[u].type = "entry" /\ trades[u].dir = "buy"

\* C15 as stated: the volumes of the tp1 and the tp2 trade created for an entry add up
\* to the volume of that entry
C15_VolumeConserved ==
  \A t1, t2 \in TradeIds :
    (/\ trades[t1].type = "tp1" /\ trades[t2].type = "tp2"
     /\ trades[t1].parent = trades[t2].parent)
      => trades[t1].volume + trades[t2].volume = trades[trades[t1].parent].volume

\* C18: when the health check at the start of the handling of a buy/sell signal fails,
\* no trade row is created and nothing is submitted to the bridge while that signal is
\* handled, processSignal returns an error, and the loop goes straight on to mark the
\* signal processed, which it is unless the store refuses the statement
C18_BridgeDownFailsFast ==
  [][/\ bridgeDown' => /\ Len(trades') = Len(trades)
                       /\ nextTicket' = nextTicket /\ positions' \subseteq positions
                       /\ procErr' /\ sigPC' = "mark"
     /\ (bridgeDown /\ ~bridgeDown') => (signals'[batch[bi]].processed \/ writeErr')]_vars

\* the health check of a buy/sell signal has failed: the loop is about to mark the signal,
\* for which no trade exists and nothing was submitted
C18_Witness ==
  /\ bridgeDown /\ sigPC = "mark" /\ procErr /\ Sig.type \in {"buy", "sell"}
  /\ \A t \in TradeIds : trades[t].sig # Cur
  /\ nextTicket = 1

\* C16 as stated, the prices taken at the precision they are rounded to: of the requests
\* that set both TP levels, normalization rejects every buy whose tp2 is not above tp1
\* and every sell whose tp2 is not below tp1, and accepts every otherwise valid buy with
\* tp2 above tp1 and sell with tp2 below tp1
C16_TPOrderingChecked ==
  webResult # NoResult =>
    LET w == webhook
        both == w.tp1.k = "num" /\ w.tp1.v > 0 /\ w.tp2.k = "num" /\ w.tp2.v > 0
        up == (w.tp2.v + 1) \div 2 > (w.tp1.v + 1) \div 2
        down == (w.tp2.v + 1) \div 2 < (w.tp1.v + 1) \div 2
        otherwiseValid ==
          /\ w.source = "tradingview" /\ w.format \in {"json", "pipe"}
          /\ w.ticker # "" /\ w.action \in {"buy", "sell"}
          /\ \A f \in {w.entry, w.stop_loss, w.tp1, w.tp2} :
               f.k # "text" /\ f.v <= PriceCeiling
        normalized == webResult.err \in {"", "failed to create signal"}
    IN /\ (both /\ w.action = "buy" /\ ~up) => ~normalized
       /\ (both /\ w.action = "sell" /\ ~down) => ~normalized
       /\ (otherwiseValid /\ both /\ w.action = "buy" /\ up) => normalized
       /\ (otherwiseValid /\ both /\ w.action = "sell" /\ down) => normalized

\* C17: a request with an unsupported source, without ticker or action, with an action
\* other than buy/sell/close or, in JSON, with a price above the ceiling fails in
\* normalization; whenever normalization fails (these cases, a bad TP ordering, a body
\* that cannot be parsed) ProcessWebhook returns before CreateSignal and the signals
\* table is unchanged
C17_RejectedNotStored ==
  [][webResult = NoResult =>
       LET w == webhook
           notNormalized ==
             webResult'.err \in {"unsupported webhook source", "failed to parse webhook"}
       IN /\ (\/ w.source # "tradingview"
              \/ w.ticker = "" \/ w.action \notin {"buy", "sell", "close"}
              \/ /\ w.format = "json"
                 /\ \E f \in {w.entry, w.stop_loss, w.tp1, w.tp2} : f.v > PriceCeiling)
               => notNormalized
          /\ webResult'.cause = "TP ordering" => notNormalized
          /\ notNormalized => signals' = signals]_vars

\* a sell request was rejected for its TP ordering and nothing was stored
C17_Witness ==
  /\ webResult.err = "failed to parse webhook" /\ webResult.cause = "TP ordering"
  /\ webhook.action = "sell" /\ signals = <<>>

\* C19 as stated: parseSimpleFormat accepts a pipe payload exactly when
\* parseTradingViewWebhook accepts the JSON payload with the same ticker, action, entry,
\* stop_loss, tp1 and tp2, and then both give the same symbol, signal type, price,
\* stop-loss, tp1 and tp2
C19_PipeMatchesJSON ==
  (webResult # NoResult /\ webhook.source = "tradingview" /\ webhook.format = "pipe") =>
    LET asJSON == parseTradingViewWebhook([webhook EXCEPT !.format = "json"], arch)
        fields(q) == <<q.symbol, q.type, q.price, q.stop_loss, q.tp1, q.tp2>>
    IN /\ (webResult.err # "failed to parse webhook") = (asJSON.err = "")
       /\ asJSON.err = "" => fields(webResult.req) = fields(asJSON.req)

\* C20 as stated: for a JSON request that passes normalization parseTimestamp yields the
\* receipt time for an absent timestamp, the text of a quoted string, the Unix time of an
\* integer in seconds, a thousandth of an integer above 1e12, and the receipt time for an
\* integer that is then negative or above 4102444800; and whether a request is accepted
\* does not depend on its timestamp
C20_TimestampNeverRejects ==
  webResult # NoResult =>
    LET ts == webhook.timestamp
        got == webResult.req.timestampStr
        accepted(w) ==
          /\ w.source = "tradingview"
          /\ LET r == parseTradingViewWebhook(w, arch)
             IN r.err = "" /\ r.req.payloadIsJSON
    IN /\ (webhook.format = "json" /\ webResult.err = "") =>
            /\ ts.kind = "absent" => got = Now
            /\ ts.kind = "string" => got = AsText(ts.text)
            /\ ts \in {TsInt(Big(1704, 628800)), TsInt(Big(1704628, 800000))}
                 => got = AtUnix(Big(1704, 628800))
            /\ ts = TsInt(Big(1000000, 1)) => got = AtUnix(Big(1000, 0))
            /\ ts \in {TsInt(Big(4102, 444800)), TsInt(Big(4102444, 800999))}
                 => got = AtUnix(Big(4102, 444800))
            /\ ts \in {TsInt(Minus(0, 5)), TsInt(Big(4102, 444801)), TsInt(Big(1000000, 0)),
                       TsInt(Big(4102444, 801000)), TsInt(Big(9999999, 999999))}
                 => got = Now
       /\ (webResult.err = "") = accepted([webhook EXCEPT !.timestamp = TsAbsent])

\* C21 as stated: once signals are stored, eventually every stored signal is processed
\* (a behaviour that fills the trades table to the bound of the model is left aside)
C21_EventuallyProcessed ==
  (signals # <<>>) ~>
    ((\A s \in SignalIds : signals[s].processed) \/ Len(trades) = MaxTrades)

\* C22 as stated: a request whose signature header is missing or is not the HMAC-SHA256
\* of the body under the configured secret creates no signal
C22_UnsignedCreatesNoSignal ==
  [][(webResult = NoResult /\ http.signature # "hmac") => signals' = signals]_vars

\* C23 as stated: every change of a trade's stored status is pending->filled,
\* pending->rejected, pending->cancelled or filled->closed
C23_OnlyMachineTransitions ==
  [][\A i \in 1..Len(trades) :
       trades'[i].status # trades[i].status =>
         <<trades[i].status, trades'[i].status>> \in
           {<<"pending", "filled">>, <<"pending", "rejected">>,
            <<"pending", "cancelled">>, <<"filled", "closed">>}]_vars

\* C24: in a reconciliation run that immediately follows a completed run against the
\* same positions and orders, the status written for a trade, if any, is the status
\* the first run left it with
C24_SecondRunWritesSameStatus ==
  (prevClean /\ syncPC = "apply") =>
    LET e == snapTrades[si]
        target == IF e.ticket = NoTicket THEN ""
                  ELSE SyncTarget(e.status, e.ticket \in snapPos, e.ticket \in snapOrd)
    IN target \in {"", trades[e.id].status}

\* the second of two successive runs is at a trade whose ticket the bridge reports as
\* an order and not as a position
C24_Witness ==
  /\ prevClean /\ syncPC = "apply"
  /\ snapTrades[si].ticket \in snapOrd \ snapPos

\* C25: ModifyPosition is called only for the TP leg inserted in the same step, so at
\* most once per leg and never again for a leg placed earlier; a leg whose
\* ModifyPosition the bridge refused (success=false) or that failed with an error is
\* left rejected, unless the store refuses that write
C25_ModifyOncePerLeg ==
  /\ [](modifyFailed \subseteq modifyCalls)
  /\ [][/\ \A t \in modifyCalls' \ modifyCalls :
             t = Len(trades') /\ Len(trades') = Len(trades) + 1
        /\ \A t \in modifyFailed' \ modifyFailed :
             trades'[t].status = "rejected" \/ writeErr']_vars

\* a TP leg whose ModifyPosition failed is stored rejected
C25_Witness ==
  \E t \in modifyFailed : trades[t].status = "rejected" /\ trades[t].type \in {"tp1", "tp2"}

C28_OnlyEntryRetried ==
  (call.fn \in ClientCalls) =>
    /\ attempt <= RetryAttempts + 1
    /\ ret.done /\ ~ret.err => outcomes[attempt] # "err"
    /\ call.fn # "SendTrade" => attempt <= 1 /\ (ret.done <=> attempt = 1)

\* C29 as stated: handling a buy/sell signal, when no call fails and the bridge holds
\* fewer positions than the limit, inserts an entry trade that is a market order with
\* the whole volume: the requested volume if it is positive and at most the max
\* position size, else (absent, zero or above the max) the default of 0.10 lots
C29_EntryVolume ==
  [][(/\ sigPC = "process" /\ sigPC' # "process" /\ Sig.type \in {"buy", "sell"}
      /\ faults' = faults /\ Cardinality(positions) < MaxOpenPositions) =>
       LET v == Sig.volume
           want == IF v > 0 /\ v <= MaxPositionSize THEN v ELSE 100
           e == trades'[Len(trades')]
       IN /\ Len(trades') = Len(trades) + 1
          /\ e.type = "entry" /\ e.sig = Cur /\ e.kind = "market" /\ e.volume = want]_vars

\* C30 as stated: a request in which entry, stop_loss, tp1 or tp2 is a number that is
\* zero or negative, or above the ceiling, fails normalization and stores no signal
C30_BadPriceRejected ==
  [][(/\ webResult = NoResult /\ webhook.source = "tradingview"
      /\ \E f \in {webhook.entry, webhook.stop_loss, webhook.tp1, webhook.tp2} :
           f.k = "num" /\ (f.v <= 0 \/ f.v > PriceCeiling)) =>
       (webResult'.err = "failed to parse webhook" /\ signals' = signals)]_vars

\* C31 as stated: the reconciliation loop sets neither mt5_ticket nor mt5_response, the
\* execution engine sets none of current_price, profit_loss and swap, and a
\* reconciliation step does not replace a status the execution engine has made final
C31_ColumnScopedWrites ==
  /\ [](/\ ReconciliationColumns \cap {"mt5_ticket", "mt5_response"} = {}
        /\ ExecutionColumns \cap {"current_price", "profit_loss", "swap"} = {})
  /\ [][(syncPC = "apply" /\ si' # si) =>
          /\ \A t \in TradeIds : trades'[t].ticket = trades[t].ticket
          /\ LET t == snapTrades[si].id
             IN trades[t].status \in TerminalStatuses =>
                  trades'[t].status = trades[t].status]_vars

\* C32: a step that stores a signal appends one row with processed = false, leaves the
\* other signals, the trades and the bridge as they were; and a trade is inserted only
\* by the signal loop, for the signal it is handling, which was stored before that step
C32_WebhookOnlyStoresSignal ==
  [][/\ signals' # signals /\ Len(signals') # Len(signals) =>
          /\ Len(signals') = Len(signals) + 1
          /\ ~signals'[Len(signals')].processed
          /\ \A s \in SignalIds : signals'[s] = signals[s]
          /\ trades' = trades /\ positions' = positions /\ orders' = orders
          /\ nextTicket' = nextTicket
     /\ \A t \in (1..Len(trades')) \ TradeIds :
          /\ sigPC \in {"process", "tp1", "tp2"} /\ signals' = signals
          /\ trades'[t].sig = batch[bi] /\ batch[bi] \in SignalIds]_vars

\* a second signal was stored, unprocessed, while the trades of the first one exist and a
\* position is open
C32_Witness ==
  /\ Len(signals) = 2 /\ ~signals[2].processed /\ signals[1].processed
  /\ trades # <<>> /\ positions # {} /\ \A t \in TradeIds : trades[t].sig = 1

\* C33 as stated: a request that fails validation is answered with a 4xx status
C33_ValidationFailureIs4xx ==
  (webResult # NoResult /\ webResult.err = "failed to parse webhook") =>
    HttpStatus(webResult) \in 400..499

\* C34 as stated: a TP leg whose ModifyPosition the bridge accepted is stored pending
\* (unless the store refused a write) when its parent position is open, and a
\* reconciliation step leaves a pending TP leg pending while the parent position is open
C34_PlacedLegStaysPending ==
  [][/\ \A t \in (modifyCalls' \ modifyCalls) \ modifyFailed' :
          (~writeErr' /\ trades'[trades'[t].parent].ticket \in positions') =>
            trades'[t].status = "pending"
     /\ (syncPC = "apply" /\ si' # si) =>
          LET t == snapTrades[si].id
          IN (/\ trades[t].type \in {"tp1", "tp2"} /\ trades[t].status = "pending"
              /\ trades[trades[t].parent].ticket \in snapPos) =>
               trades'[t].status = "pending"]_vars

\* C35 as stated: every filled trade has a ticket, and close handling never
\* dereferences the missing ticket of a filled trade
C35_FilledHasTicket ==
  /\ \A t \in TradeIds : trades[t].status = "filled" => trades[t].ticket # NoTicket
  /\ ~crashed

\* C36 as stated: a trade whose close request the bridge answered with success=false
\* keeps the status it had
C36_RefusedCloseKeepsStatus ==
  [][\A t \in closeRefused' \ closeRefused : trades'[t].status = trades[t].status]_vars

\* C37 as stated: a TP leg is stored cancelled by its placement step only if the parent's
\* ticket is not among the bridge's positions; a failed health check or positions query
\* does not cancel it
C37_CancelledOnlyWhenGone ==
  [][(sigPC \in {"tp1", "tp2"} /\ sigPC' # sigPC /\ Len(trades') = Len(trades) + 1) =>
       LET t == Len(trades')
       IN trades'[t].status = "cancelled" =>
            trades[trades'[t].parent].ticket \notin positions]_vars

\* C38: a reconciliation run reaches its update loop only when the health check and the
\* reads of the open trades, the positions and the orders all succeeded, and then works
\* on the bridge's positions and orders; a step of the loop changes nothing for a trade
\* without ticket, and marks a trade closed or cancelled only if its ticket is in
\* neither list
C38_NoWritesOnFailedRead ==
  [][/\ (syncPC = "idle" /\ syncPC' = "apply") =>
          (faults' = faults /\ snapPos' = positions /\ snapOrd' = orders)
     /\ (syncPC = "idle" /\ syncPC' = "idle" /\ syncWrote' # syncWrote) => trades' = trades
     /\ (syncPC = "apply" /\ si' # si) =>
          LET e == snapTrades[si]
          IN /\ e.ticket = NoTicket => trades' = trades
             /\ \A t \in TradeIds :
                  (trades'[t].status # trades[t].status
                   /\ trades'[t].status \in {"closed", "cancelled"}) =>
                    (t = e.id /\ e.ticket \notin snapPos \cup snapOrd)]_vars

\* the update loop has just passed over an open trade without ticket, while the bridge
\* reported open positions
C38_Witness ==
  /\ syncPC = "apply" /\ si > 1 /\ si <= Len(snapTrades) /\ snapPos # {}
  /\ snapTrades[si - 1].ticket = NoTicket
  /\ trades[snapTrades[si - 1].id].status \in {"pending", "filled"}

\* C39: once a signal is marked processed, its entry trade is not left with status
\* pending and without an external ticket
C39_EntrySettledWhenProcessed ==
  \A t \in TradeIds :
    (trades[t].type = "entry" /\ signals[trades[t].sig].processed) =>
      ~(trades[t].status = "pending" /\ trades[t].ticket = NoTicket)

\* C40: one call of SendTrade for an entry trade makes the bridge execute at most one
\* order, whatever answers were lost on the way
C40_OneOrderPerEntry ==
  call.fn = "SendTrade" => Cardinality(positions) <= 1

====
